---- MODULE Spec2Model ----
(***************************************************************************)
(* Model of exercise1/system_health_monitor.py: the monitoring loop of     *)
(* main and the four checks it calls, one action per step of the loop.     *)
(* Percentages are whole numbers; None is the number -1, which no reading  *)
(* takes.  The host changes its process table at any time: every call     *)
(* that looks at the table sees some set of the process ids.               *)
(* The second part models exercise2/app_uptime_monitor.py: monitor and     *)
(* check_app_status, under a specification of its own.                     *)
(***************************************************************************)
EXTENDS Integers, Sequences, FiniteSets, TLC

\* ------------------------------------------------------------------ bounds
NumPids == 2        \* process ids the host can show: 1..NumPids
NumPaths == 2       \* configured disk paths: 1..NumPaths
Spread == 1         \* readings range over threshold-Spread .. threshold+Spread
MaxUrls == 2        \* longest list of URLs given to monitor

\* ------------------------------------------------------- configuration
None == -1

\* parsed command line: the percent thresholds are the defaults, the process
\* count threshold is a configured value within the size of the process table
args == [cpu_threshold |-> 80, memory_threshold |-> 80, disk_threshold |-> 90,
         process_cpu_threshold |-> 20, process_count_threshold |-> 1]

\* disk_paths: path k is the k-th configured path
disk_paths == [k \in 1..NumPaths |-> k]

Pids == 1..NumPids

Readings(t) == (t - Spread)..(t + Spread)

\* p.memory_percent() is stored, never compared
MemReadings == {3}

\* logging levels of the logging module and the level of the logger
LevelNo == [DEBUG |-> 10, INFO |-> 20, WARNING |-> 30, ERROR |-> 40]

LoggerLevel == LevelNo["INFO"]

\* a logger call: the line is written when its level reaches the logger's
Logged(l, level, msg, arg) ==
    IF LevelNo[level] >= LoggerLevel
    THEN Append(l, [level |-> level, msg |-> msg, arg |-> arg])
    ELSE l

HasLine(l, level, msg) ==
    \E k \in 1..Len(l) : l[k].level = level /\ l[k].msg = msg

\* the name psutil reports for a process: <<>> when it cannot be read
InfoName(p) == IF p = 1 THEN <<>> ELSE <<"worker">>

\* name = proc.info.get("name") or ""
NameOf(p) == IF InfoName(p) = <<>> THEN "" ELSE InfoName(p)[1]

\* ------------------------------------------------------------- exceptions
SoftErrors == {"NoSuchProcess", "AccessDenied", "ZombieProcess"}

\* "except Exception" catches every exception but KeyboardInterrupt
CaughtByExceptionBare(e) == TRUE

CaughtByException(e) == e # "KeyboardInterrupt"

\* outcomes of a system-wide read: a value, a generic failure, an interrupt
ReadOutcomes(t) ==
    {[exc |-> "", v |-> x] : x \in Readings(t)} \cup
    {[exc |-> e, v |-> None] : e \in {"OSError", "KeyboardInterrupt"}}

\* outcomes of a per-process call
ProcOutcomes(vals) ==
    {[exc |-> "", v |-> x] : x \in vals} \cup
    {[exc |-> e, v |-> None] : e \in SoftErrors \cup {"OSError", "KeyboardInterrupt"}}

\* ------------------------------------------------------------ comparisons
CpuHigh(v) == v > args.cpu_threshold

MemHigh(v) == v > args.memory_threshold

DiskHighGE(v) == v >= args.disk_threshold

DiskHigh(v) == v > args.disk_threshold

CountHighGE(v) == v >= args.process_count_threshold

CountHigh(v) == v > args.process_count_threshold

ProcCpuHigh(v) == v # None /\ v > args.process_cpu_threshold

\* ------------------------------------------------------------------ state
VARIABLES
    pc,            \* position of main in the loop
    exc,           \* exception that ended main ("" while running)
    sigint,        \* a KeyboardInterrupt has been raised in the process
    log,           \* lines written since the current cycle began
    val,           \* check_cpu_usage / check_memory_usage: the percent read
    cpu_alert, mem_alert, disk_alerts, high_cpu_procs, proc_alerts,
    cycle_alerts,  \* main
    i, du, alerts, \* check_disk_usage: next path, readings so far, alerts
    process_count, p_alerts, iter, procs, j, ph2, cpu_pct,
    high_cpu_processes, \* check_running_processes
    sleeps,        \* time.sleep(sample_interval) calls of the running scan
    baseline,      \* first pass: how the last proc.cpu_percent(None) ended
    prev_alerts    \* history: the cycle before this one raised alerts

\* app_uptime_monitor.monitor
VARIABLES
    mpc,           \* position of monitor
    urls,          \* its argument
    answers,       \* history: how requests.get ended for each url so far
    results,       \* the list it builds and returns
    mlog           \* lines its logger wrote

uptimeVars == <<mpc, urls, answers, results, mlog>>

\* main binds the first value of each returned tuple to _ and never reads it
mainLocals == <<cpu_alert, mem_alert, disk_alerts, high_cpu_procs,
                proc_alerts, cycle_alerts>>

diskLocals == <<i, du, alerts>>

scanLocals == <<process_count, p_alerts, iter, procs, j, ph2, cpu_pct,
                high_cpu_processes, sleeps, baseline>>

vars == <<pc, exc, sigint, log, val, mainLocals, diskLocals,
          scanLocals, prev_alerts>>

HealthInit ==
    /\ pc = "cycle"
    /\ exc = ""
    /\ sigint = FALSE
    /\ log = <<>>
    /\ val = None
    /\ cpu_alert = FALSE
    /\ mem_alert = FALSE
    /\ disk_alerts = <<>>
    /\ high_cpu_procs = <<>>
    /\ proc_alerts = <<>>
    /\ cycle_alerts = FALSE
    /\ i = 0
    /\ du = <<>>
    /\ alerts = <<>>
    /\ process_count = None
    /\ p_alerts = <<>>
    /\ iter = <<>>
    /\ procs = <<>>
    /\ j = 0
    /\ ph2 = <<>>
    /\ cpu_pct = None
    /\ high_cpu_processes = <<>>
    /\ sleeps = 0
    /\ baseline = ""
    /\ prev_alerts = FALSE

\* monitor is not called
UptimeNotCalled ==
    /\ mpc = "idle"
    /\ urls = <<>>
    /\ answers = <<>>
    /\ results = <<>>
    /\ mlog = <<>>

Init == HealthInit /\ UptimeNotCalled

\* the locals of a check are gone when it returns or an exception leaves it
DiskFrameGone == i' = 0 /\ du' = <<>> /\ alerts' = <<>>

ScanFrameGone ==
    /\ process_count' = None
    /\ p_alerts' = <<>>
    /\ iter' = <<>>
    /\ procs' = <<>>
    /\ j' = 0
    /\ ph2' = <<>>
    /\ cpu_pct' = None
    /\ high_cpu_processes' = <<>>
    /\ sleeps' = 0
    /\ baseline' = ""

\* ------------------------------------------------- main's except clauses
\* an exception e reaches the try statement of main after the lines l
MainExcept(e, l) ==
    /\ pc' = "stopped"
    /\ exc' = e
    /\ sigint' = (sigint \/ e = "KeyboardInterrupt")
    /\ log' = IF e = "KeyboardInterrupt"
              THEN Logged(l, "INFO", "Monitoring stopped by user.", 0)
              ELSE Logged(l, "ERROR", "Unhandled exception in monitor", 0)
    /\ val' = None
    /\ DiskFrameGone
    /\ ScanFrameGone
    /\ UNCHANGED <<mainLocals, prev_alerts, uptimeVars>>

\* ------------------------------------------------------------------ main
\* cycle_alerts = False and the first line of the cycle.  The results of the
\* previous cycle's checks are dead here: each name is assigned by its check
\* before the if statement of this cycle reads it, so the old values are not
\* kept; the model writes them as the values of the first cycle.
CycleAlertsCarried(prev) == prev

\* cycle_alerts = False at the top of the loop body, whatever it was
CycleAlertsAtStart(prev) == FALSE

NewCycleBody ==
    /\ pc = "cycle"
    /\ cycle_alerts' = CycleAlertsAtStart(cycle_alerts)
    /\ log' = Logged(<<>>, "INFO", "-----New health check cycle-----", 0)
    /\ pc' = "cpu"
    /\ cpu_alert' = FALSE
    /\ mem_alert' = FALSE
    /\ disk_alerts' = <<>>
    /\ high_cpu_procs' = <<>>
    /\ proc_alerts' = <<>>
    /\ UNCHANGED <<exc, sigint, val, diskLocals, scanLocals, uptimeVars>>

NewCycle == NewCycleBody /\ UNCHANGED prev_alerts

\* the same step, keeping for the history whether the cycle that has just
\* ended raised alerts
NewCycleAfter == NewCycleBody /\ prev_alerts' = cycle_alerts

\* what check_cpu_usage returns when the read fails
CpuReadFailedAlert == <<None, TRUE>>

CpuReadFailed == <<None, FALSE>>

\* cpu_percent = psutil.cpu_percent(interval=sample_interval), and the
\* return of the except clause
check_cpu_usage_read ==
    /\ pc = "cpu"
    /\ \E r \in ReadOutcomes(args.cpu_threshold) :
        IF r.exc = ""
        THEN /\ val' = r.v
             /\ pc' = "cpu_cmp"
             /\ UNCHANGED <<prev_alerts, uptimeVars, exc, sigint, log, mainLocals, diskLocals,
                            scanLocals>>
        ELSE IF CaughtByException(r.exc)
        THEN /\ cpu_alert' = CpuReadFailed[2]
             /\ log' = Logged(log, "ERROR", "Failed to read CPU percent", 0)
             /\ sigint' = (sigint \/ r.exc = "KeyboardInterrupt")
             /\ pc' = "mem"
             /\ UNCHANGED <<prev_alerts, uptimeVars, exc, val, mem_alert, disk_alerts,
                            high_cpu_procs, proc_alerts, cycle_alerts,
                            diskLocals, scanLocals>>
        ELSE MainExcept(r.exc, log)

\* the comparison with the threshold and the return
check_cpu_usage_decide ==
    /\ pc = "cpu_cmp"
    /\ \E e \in {"", "KeyboardInterrupt"} :
        IF e # "" THEN MainExcept(e, log)
        ELSE /\ cpu_alert' = CpuHigh(val)
             /\ log' = IF CpuHigh(val)
                       THEN Logged(log, "WARNING", "High CPU usage", 0)
                       ELSE Logged(log, "INFO", "CPU usage", 0)
             /\ val' = None
             /\ pc' = "mem"
             /\ UNCHANGED <<prev_alerts, uptimeVars, exc, sigint, mem_alert, disk_alerts,
                            high_cpu_procs, proc_alerts, cycle_alerts,
                            diskLocals, scanLocals>>

\* mem_percent = psutil.virtual_memory().percent, and the return of the
\* except clause
check_memory_usage_read ==
    /\ pc = "mem"
    /\ \E r \in ReadOutcomes(args.memory_threshold) :
        IF r.exc = ""
        THEN /\ val' = r.v
             /\ pc' = "mem_cmp"
             /\ UNCHANGED <<prev_alerts, uptimeVars, exc, sigint, log, mainLocals, diskLocals,
                            scanLocals>>
        ELSE IF CaughtByException(r.exc)
        THEN /\ mem_alert' = FALSE
             /\ log' = Logged(log, "ERROR", "Failed to read  memory usage", 0)
             /\ sigint' = (sigint \/ r.exc = "KeyboardInterrupt")
             /\ pc' = "disk"
             /\ i' = 1
             /\ du' = <<>>
             /\ alerts' = <<>>
             /\ UNCHANGED <<prev_alerts, uptimeVars, exc, val, cpu_alert, disk_alerts,
                            high_cpu_procs, proc_alerts, cycle_alerts,
                            scanLocals>>
        ELSE MainExcept(r.exc, log)

\* the comparison with the threshold and the return; main goes on to
\* check_disk_usage
check_memory_usage_decide ==
    /\ pc = "mem_cmp"
    /\ \E e \in {"", "KeyboardInterrupt"} :
        IF e # "" THEN MainExcept(e, log)
        ELSE /\ mem_alert' = MemHigh(val)
             /\ log' = IF MemHigh(val)
                       THEN Logged(log, "WARNING", "High memory usage", 0)
                       ELSE Logged(log, "INFO", "Memory usage", 0)
             /\ val' = None
             /\ pc' = "disk"
             /\ i' = 1
             /\ du' = <<>>
             /\ alerts' = <<>>
             /\ UNCHANGED <<prev_alerts, uptimeVars, exc, sigint, cpu_alert, disk_alerts,
                            high_cpu_procs, proc_alerts, cycle_alerts,
                            scanLocals>>

\* ------------------------------------------------------ check_disk_usage
\* the index the for loop goes on with after the read of path k failed
AfterDiskFailureBreak(k) == Len(disk_paths) + 1

AfterDiskFailure(k) == k + 1

\* one iteration of the for loop over the paths
disk_path ==
    /\ pc = "disk"
    /\ i <= Len(disk_paths)
    /\ \E r \in ReadOutcomes(args.disk_threshold) :
        IF r.exc = ""
        THEN /\ du' = Append(du, r.v)
             /\ alerts' = IF DiskHigh(r.v)
                          THEN Append(alerts, <<disk_paths[i], r.v>>)
                          ELSE alerts
             /\ log' = IF DiskHigh(r.v)
                       THEN Logged(log, "WARNING", "High disk usage", disk_paths[i])
                       ELSE Logged(log, "INFO", "Disk usage", disk_paths[i])
             /\ i' = i + 1
             /\ UNCHANGED <<prev_alerts, uptimeVars, pc, exc, sigint, val, mainLocals, scanLocals>>
        ELSE IF CaughtByException(r.exc)
        THEN /\ du' = Append(du, None)
             /\ log' = Logged(log, "INFO", "Error checking disk", disk_paths[i])
             /\ sigint' = (sigint \/ r.exc = "KeyboardInterrupt")
             /\ i' = AfterDiskFailure(i)
             /\ UNCHANGED <<prev_alerts, uptimeVars, pc, exc, val, alerts, mainLocals, scanLocals>>
        ELSE MainExcept(r.exc, log)

\* return alerts, bound to disk_alerts in main
disk_return ==
    /\ pc = "disk"
    /\ i > Len(disk_paths)
    /\ disk_alerts' = alerts
    /\ DiskFrameGone
    /\ pc' = "count"
    /\ UNCHANGED <<prev_alerts, uptimeVars, exc, sigint, log, val, cpu_alert, mem_alert,
                   high_cpu_procs, proc_alerts, cycle_alerts, scanLocals>>

\* ----------------------------------------------- check_running_processes
\* the pids of a set in ascending order, as process_iter yields them
RECURSIVE SortedPids(_)
SortedPids(S) ==
    IF S = {} THEN <<>>
    ELSE LET m == CHOOSE x \in S : \A y \in S : x <= y
         IN  <<m>> \o SortedPids(S \ {m})

\* x[f] of a dict: KeyError when the dict has no key f
Lookup(x, f) ==
    IF f \in DOMAIN x THEN [exc |-> "", v |-> x[f]]
    ELSE [exc |-> "KeyError", v |-> None]

\* the key the sort of the high-usage list reads from each entry
SortKeyField == "cpu_percent"

\* the keys the listing reads from each entry
FmtFields == {"pid", "name", "cpu", "mem_percent"}

\* x goes behind every entry of the sorted s whose key is not smaller
RECURSIVE InsertDesc(_, _, _)
InsertDesc(x, s, f) ==
    IF s = <<>> THEN <<x>>
    ELSE IF Head(s)[f] >= x[f] THEN <<Head(s)>> \o InsertDesc(x, Tail(s), f)
    ELSE <<x>> \o s

\* sorted(s, key=lambda x: x[f], reverse=True): descending and stable
RECURSIVE SortedDesc(_, _)
SortedDesc(s, f) ==
    IF s = <<>> THEN <<>>
    ELSE InsertDesc(s[Len(s)], SortedDesc(SubSeq(s, 1, Len(s) - 1), f), f)

\* process_count = len(psutil.pids()) and the decision on it
process_count_check ==
    /\ pc = "count"
    /\ \E e \in {"", "OSError", "KeyboardInterrupt"}, table \in SUBSET Pids :
        IF e = ""
        THEN /\ process_count' = Cardinality(table)
             /\ p_alerts' = IF CountHigh(Cardinality(table))
                            THEN <<<<"Process Count", Cardinality(table)>>>>
                            ELSE <<>>
             /\ log' = IF CountHigh(Cardinality(table))
                       THEN Logged(log, "WARNING", "High number of processes", 0)
                       ELSE Logged(log, "INFO", "Total processes", 0)
             /\ pc' = "iter"
             /\ UNCHANGED <<prev_alerts, uptimeVars, sleeps, baseline, exc, sigint, val, mainLocals, diskLocals, iter,
                            procs, j, ph2, cpu_pct, high_cpu_processes>>
        ELSE IF CaughtByException(e)
        THEN /\ process_count' = None
             /\ p_alerts' = <<>>
             /\ log' = Logged(log, "ERROR", "Failed to get process count", 0)
             /\ sigint' = (sigint \/ e = "KeyboardInterrupt")
             /\ pc' = "iter"
             /\ UNCHANGED <<prev_alerts, uptimeVars, sleeps, baseline, exc, val, mainLocals, diskLocals, iter,
                            procs, j, ph2, cpu_pct, high_cpu_processes>>
        ELSE MainExcept(e, log)

\* psutil.process_iter starts: it enumerates the process table
process_iter ==
    /\ pc = "iter"
    /\ \E e \in {"", "OSError", "KeyboardInterrupt"}, table \in SUBSET Pids :
        IF e = ""
        THEN /\ iter' = SortedPids(table)
             /\ procs' = <<>>
             /\ pc' = "phase1"
             /\ UNCHANGED <<prev_alerts, uptimeVars, sleeps, baseline, exc, sigint, log, val, mainLocals, diskLocals,
                            process_count, p_alerts, j, ph2, cpu_pct,
                            high_cpu_processes>>
        ELSE MainExcept(e, log)

\* the exceptions of the baseline call that end the iteration with continue:
\* those of the inner except clause and those of the outer one
Phase1CaughtInnerOnly == {"NoSuchProcess", "ZombieProcess"}

Phase1Caught ==
    {"NoSuchProcess", "ZombieProcess"} \cup
    {"NoSuchProcess", "AccessDenied", "ZombieProcess"}

\* first pass, one process: proc.cpu_percent(None) sets the baseline
phase1 ==
    /\ pc = "phase1"
    /\ iter # <<>>
    /\ \E present \in BOOLEAN :
       LET p == Head(iter) IN
       IF ~present
       THEN \* process_iter itself skips a process that is gone
            /\ iter' = Tail(iter)
            /\ baseline' = ""
            /\ UNCHANGED <<prev_alerts, uptimeVars, sleeps, pc, exc, sigint, log, val, mainLocals,
                           diskLocals, process_count, p_alerts, procs, j,
                           ph2, cpu_pct, high_cpu_processes>>
       ELSE \E r \in ProcOutcomes({0}) :
            IF r.exc = ""
            THEN /\ procs' = Append(procs, [pid |-> p, name |-> NameOf(p)])
                 /\ iter' = Tail(iter)
                 /\ baseline' = "ok"
                 /\ UNCHANGED <<prev_alerts, uptimeVars, sleeps, pc, exc, sigint, log, val, mainLocals,
                                diskLocals, process_count, p_alerts, j, ph2, cpu_pct,
                                high_cpu_processes>>
            ELSE IF r.exc \in Phase1Caught
            THEN /\ iter' = Tail(iter)
                 /\ baseline' = r.exc
                 /\ UNCHANGED <<prev_alerts, uptimeVars, sleeps, pc, exc, sigint, log, val, mainLocals,
                                diskLocals, process_count, p_alerts, procs,
                                j, ph2, cpu_pct, high_cpu_processes>>
            ELSE MainExcept(r.exc, log)

\* the statement after the for loop of the first pass is reached when
\* process_iter is exhausted
SleepDueAnyTime == TRUE

SleepDue == iter = <<>>

\* time.sleep(sample_interval), once for the whole registry
sample_sleep ==
    /\ pc = "phase1"
    /\ SleepDue
    /\ \E e \in {"", "KeyboardInterrupt"} :
        IF e = ""
        THEN /\ pc' = "phase2"
             /\ j' = 1
             /\ ph2' = <<>>
             /\ cpu_pct' = None
             /\ high_cpu_processes' = <<>>
             /\ sleeps' = sleeps + 1
             /\ baseline' = ""
             /\ UNCHANGED <<prev_alerts, uptimeVars, exc, sigint, log, val, mainLocals, diskLocals,
                            process_count, p_alerts, iter, procs>>
        ELSE MainExcept(e, log)

\* the Process object the first pass calls cpu_percent on: the one that
\* process_iter yields for the pid
IterObject(pid) == [made_by |-> "process_iter", pid |-> pid]

\* the Process object the second pass calls cpu_percent on: the one it
\* constructs for the pid, dropped when the iteration ends
Phase2Object(pid) == [made_by |-> "Process", pid |-> pid]

\* the Process objects whose cpu counter holds a baseline of this scan: a
\* Process object keeps the times of its own last cpu_percent call
Baselined == {IterObject(procs[k].pid) : k \in 1..Len(procs)}

\* the exception the try body of the second pass raises, "" when neither
\* p.cpu_percent(None) nor p.memory_percent() fails
Phase2RaisedCpuOnly(rc, rm) == rc.exc

Phase2Raised(rc, rm) == IF rc.exc # "" THEN rc.exc ELSE rm.exc

\* second pass, one registry entry: Process(pid), cpu_percent, memory_percent
phase2 ==
    /\ pc = "phase2"
    /\ j <= Len(procs)
    /\ LET pid == procs[j].pid
           name == procs[j].name
           \* the except clauses of the loop body; cpu_pct is not read again
           \* in this iteration and is assigned before the next reads it
           Handle(e) ==
               IF e \in SoftErrors \/ CaughtByException(e)
               THEN /\ ph2' = Append(ph2, IF e \in SoftErrors THEN "soft" ELSE "error")
                    /\ log' = IF e \in SoftErrors THEN log
                              ELSE Logged(log, "DEBUG", "process check error", pid)
                    /\ sigint' = (sigint \/ e = "KeyboardInterrupt")
                    /\ cpu_pct' = None
                    /\ j' = j + 1
                    /\ UNCHANGED <<prev_alerts, uptimeVars, sleeps, baseline, pc, exc, val, mainLocals, diskLocals,
                                   process_count, p_alerts, iter, procs,
                                   high_cpu_processes>>
               ELSE MainExcept(e, log)
       IN
       \E present \in BOOLEAN :
       IF ~present
       THEN \* psutil.Process(pid) finds no such process
            Handle("NoSuchProcess")
       ELSE \E rc \in ProcOutcomes(Readings(args.process_cpu_threshold)) :
            IF rc.exc # "" THEN Handle(rc.exc)
            ELSE \E rm \in ProcOutcomes(MemReadings) :
            IF Phase2Raised(rc, rm) # "" THEN Handle(Phase2Raised(rc, rm))
            ELSE /\ high_cpu_processes' =
                       IF ProcCpuHigh(rc.v)
                       THEN Append(high_cpu_processes,
                                   [pid |-> pid, name |-> name,
                                    cpu |-> rc.v, mem |-> rm.v])
                       ELSE high_cpu_processes
                 /\ ph2' = Append(ph2, "ok")
                 /\ cpu_pct' = rc.v
                 /\ j' = j + 1
                 /\ UNCHANGED <<prev_alerts, uptimeVars, sleeps, baseline, pc, exc, sigint, log, val, mainLocals,
                                diskLocals, process_count, p_alerts, iter,
                                procs>>

\* one listing line for each entry of s, in the order of s
RECURSIVE Listing(_, _)
Listing(l, s) ==
    IF s = <<>> THEN l
    ELSE Listing(Logged(l, "WARNING", " -PID", s[1].pid), Tail(s))

\* the listing of the high-usage processes and the return to main
scan_report ==
    /\ pc = "phase2"
    /\ j > Len(procs)
    /\ \E e \in {"", "KeyboardInterrupt"} :
        IF e # "" THEN MainExcept(e, log)
        ELSE LET l1 == Logged(log, "WARNING", "High CPU processess detected:", 0)
                 keysOK == \A k \in 1..Len(high_cpu_processes) :
                              Lookup(high_cpu_processes[k], SortKeyField).exc = ""
                 fmtOK == \A k \in 1..Len(high_cpu_processes) : \A f \in FmtFields :
                              Lookup(high_cpu_processes[k], f).exc = ""
             IN  IF high_cpu_processes # <<>> /\ ~(keysOK /\ fmtOK)
                 THEN MainExcept("KeyError", l1)
                 ELSE /\ log' = IF high_cpu_processes = <<>>
                                THEN Logged(log, "INFO", "No high CPU processed detected", 0)
                                ELSE Listing(l1, SortedDesc(high_cpu_processes, SortKeyField))
                      /\ high_cpu_procs' = high_cpu_processes
                      /\ proc_alerts' = p_alerts
                      /\ pc' = "aggregate"
                      /\ ScanFrameGone
                      /\ UNCHANGED <<prev_alerts, uptimeVars, exc, sigint, val, cpu_alert, mem_alert,
                                     disk_alerts, cycle_alerts, diskLocals>>

\* ------------------------------------------------------- main, continued
\* the condition of the if statement that sets cycle_alerts
AnyAlertNoCount(c, m, d, h, p) == c \/ m \/ d # <<>> \/ h # <<>>

AnyAlert(c, m, d, h, p) == c \/ m \/ d # <<>> \/ h # <<>> \/ p # <<>>

aggregate ==
    /\ pc = "aggregate"
    /\ cycle_alerts' = IF AnyAlert(cpu_alert, mem_alert, disk_alerts,
                                   high_cpu_procs, proc_alerts)
                       THEN TRUE ELSE cycle_alerts
    /\ pc' = "summary"
    /\ UNCHANGED <<prev_alerts, uptimeVars, exc, sigint, log, val, cpu_alert, mem_alert,
                   disk_alerts, high_cpu_procs, proc_alerts, diskLocals,
                   scanLocals>>

\* the statement of the loop body that follows the summary lines
AfterSummaryNoSleep == "cycle"

AfterSummary == "main_sleep"

summary ==
    /\ pc = "summary"
    /\ \E e \in {"", "KeyboardInterrupt"} :
        IF e # "" THEN MainExcept(e, log)
        ELSE /\ log' = Logged(
                         IF cycle_alerts
                         THEN Logged(log, "WARNING", "One or more alerts raised this cycle.", 0)
                         ELSE Logged(log, "INFO", "All checks OK this cycle.", 0),
                         "INFO", "---- Cycle completed ----", 0)
             /\ pc' = AfterSummary
             /\ UNCHANGED <<prev_alerts, uptimeVars, exc, sigint, val, mainLocals, diskLocals,
                            scanLocals>>

\* time.sleep(args.interval)
main_sleep ==
    /\ pc = "main_sleep"
    /\ \E e \in {"", "KeyboardInterrupt"} :
        IF e # "" THEN MainExcept(e, log)
        ELSE /\ pc' = "cycle"
             /\ UNCHANGED <<prev_alerts, uptimeVars, exc, sigint, log, val, mainLocals, diskLocals,
                            scanLocals>>

Next ==
    \/ NewCycle
    \/ check_cpu_usage_read
    \/ check_cpu_usage_decide
    \/ check_memory_usage_read
    \/ check_memory_usage_decide
    \/ disk_path
    \/ disk_return
    \/ process_count_check
    \/ process_iter
    \/ phase1
    \/ sample_sleep
    \/ phase2
    \/ scan_report
    \/ aggregate
    \/ summary
    \/ main_sleep

Spec == Init /\ [][Next]_vars

\* the same program with the history of the cycle before kept
NextWithHistory ==
    \/ NewCycleAfter
    \/ check_cpu_usage_read
    \/ check_cpu_usage_decide
    \/ check_memory_usage_read
    \/ check_memory_usage_decide
    \/ disk_path
    \/ disk_return
    \/ process_count_check
    \/ process_iter
    \/ phase1
    \/ sample_sleep
    \/ phase2
    \/ scan_report
    \/ aggregate
    \/ summary
    \/ main_sleep

SpecWithHistory == Init /\ [][NextWithHistory]_vars

\* ------------------------------------------ exercise2/app_uptime_monitor
Urls == {"a", "b"}

\* the lists of URLs monitor is called with
UrlLists == UNION {[1..n -> Urls] : n \in 0..MaxUrls}

\* status codes a response can carry: those around the two ends of the range
Codes == ((200 - Spread)..(200 + Spread)) \cup ((300 - Spread)..(300 + Spread))

\* subclasses of requests.RequestException that requests.get raises
RequestExceptions == {"ConnectionError", "Timeout"}

\* how requests.get(url, timeout=timeout) can end
GetOutcomes ==
    {[exc |-> "", v |-> c] : c \in Codes} \cup
    {[exc |-> e, v |-> None] : e \in RequestExceptions \cup {"KeyboardInterrupt"}}

IsUpInclusive(code) == 200 <= code /\ code <= 300

\* 200 <= code < 300
IsUp(code) == 200 <= code /\ code < 300

\* check_app_status(url, timeout) when requests.get ends as r: the returned
\* tuple, or the exception that leaves the function
check_app_status(r) ==
    IF r.exc = ""
    THEN [exc |-> "", ret |-> IF IsUp(r.v) THEN <<"UP", r.v>> ELSE <<"DOWN", r.v>>]
    ELSE IF r.exc \in RequestExceptions
    THEN [exc |-> "", ret |-> <<"DOWN", None>>]
    ELSE [exc |-> r.exc, ret |-> <<>>]

\* "if code:" is false for None and for 0
Truthy(code) == code # None /\ code # 0

InitUptime ==
    /\ HealthInit
    /\ mpc = "loop"
    /\ urls \in UrlLists
    /\ answers = <<>>
    /\ results = <<>>
    /\ mlog = <<>>

\* one iteration of the for loop of monitor
monitor_url ==
    /\ mpc = "loop"
    /\ Len(answers) < Len(urls)
    /\ \E r \in GetOutcomes :
        LET url == urls[Len(answers) + 1]
            got == check_app_status(r)
        IN  /\ answers' = Append(answers, r)
            /\ IF got.exc # ""
               THEN /\ mpc' = "raised"
                    /\ UNCHANGED <<results, mlog>>
               ELSE /\ mlog' = IF Truthy(got.ret[2])
                                THEN Logged(mlog, "INFO", "Application is (HTTP)", url)
                                ELSE Logged(mlog, "WARNING", "Application is (No response)", url)
                    /\ results' = Append(results, <<url, got.ret[1], got.ret[2]>>)
                    /\ mpc' = "loop"
            /\ UNCHANGED <<urls, vars>>

\* return results
monitor_return ==
    /\ mpc = "loop"
    /\ Len(answers) = Len(urls)
    /\ mpc' = "returned"
    /\ UNCHANGED <<urls, answers, results, mlog, vars>>

NextUptime ==
    \/ monitor_url
    \/ monitor_return

SpecUptime == InitUptime /\ [][NextUptime]_uptimeVars

\* ============================================================ properties
ShutdownLine == [level |-> "INFO", msg |-> "Monitoring stopped by user.", arg |-> 0]

HighListHeader == HasLine(log, "WARNING", "High CPU processess detected:")

SummaryAlert == HasLine(log, "WARNING", "One or more alerts raised this cycle.")

SummaryOK == HasLine(log, "INFO", "All checks OK this cycle.")

\* the pids of the listing lines of l, in the order they were written
ListedPids(l) ==
    LET lines == SelectSeq(l, LAMBDA x : x.msg = " -PID")
    IN  [k \in 1..Len(lines) |-> lines[k].arg]

PidsOf(s) == [k \in 1..Len(s) |-> s[k].pid]

\* C1: main stops only on a KeyboardInterrupt: whenever main has ended, the
\* exception that ended it is the cancellation (any other exception leaves
\* the loop running).
C1_StopsOnlyOnCancel == pc = "stopped" => exc = "KeyboardInterrupt"

\* C2: when the scan reaches its listing with a non-empty high-usage list
\* and is not interrupted, the listing names the entries in descending order
\* of their measured cpu, equal values in the order they were collected.
C2_ListingSortedDesc ==
    [][(/\ pc = "phase2" /\ j > Len(procs) /\ high_cpu_processes # <<>>
        /\ pc' # "phase2" /\ ~sigint')
       => ListedPids(log') = PidsOf(SortedDesc(high_cpu_processes, "cpu"))]_vars

\* C3: in a cycle that reaches its summary, cycle_alerts is true exactly when
\* the processor alert, the memory alert, a disk alert, the process-count
\* alert or a non-empty high-usage list is present, and the summary line
\* that is written says the same.
C3_CycleAlertIff ==
    /\ pc \in {"summary", "main_sleep"} =>
         (cycle_alerts <=> (\/ cpu_alert \/ mem_alert \/ disk_alerts # <<>>
                            \/ proc_alerts # <<>> \/ high_cpu_procs # <<>>))
    /\ pc = "main_sleep" =>
         /\ SummaryAlert <=> cycle_alerts
         /\ SummaryOK <=> ~cycle_alerts

C3_Witness ==
    /\ pc = "main_sleep"
    /\ SummaryAlert
    /\ ~cpu_alert /\ ~mem_alert /\ disk_alerts = <<>> /\ proc_alerts # <<>>

\* C4: a cycle whose high-usage list is non-empty and that is not cancelled
\* is not abandoned: when main has ended without a cancellation in such a
\* cycle, the summary with an alert has been written.
C4_HighListReported ==
    (pc = "stopped" /\ HighListHeader) => (sigint \/ SummaryAlert)

\* the alert entries check_disk_usage owes for the readings d, in path order
RECURSIVE OwedDiskAlerts(_, _)
OwedDiskAlerts(d, k) ==
    IF k > Len(d) THEN <<>>
    ELSE (IF d[k] # None /\ d[k] > args.disk_threshold
          THEN <<<<disk_paths[k], d[k]>>>> ELSE <<>>)
         \o OwedDiskAlerts(d, k + 1)

\* the decisions on the disk paths, the process count and the processes
\* of the second pass, against the values read
DecisionsStrict ==
    /\ pc = "disk" =>
         \A k \in 1..Len(du) :
            (\E a \in 1..Len(alerts) : alerts[a][1] = disk_paths[k])
            <=> (du[k] # None /\ du[k] > args.disk_threshold)
    /\ pc \in {"iter", "phase1", "phase2"} =>
         (p_alerts # <<>> <=>
            (process_count # None /\ process_count > args.process_count_threshold))
    /\ (pc = "phase2" /\ j > 1 /\ ph2[j - 1] = "ok") =>
         ((/\ high_cpu_processes # <<>>
           /\ high_cpu_processes[Len(high_cpu_processes)].pid = procs[j - 1].pid)
          <=> cpu_pct > args.process_cpu_threshold)
    /\ \A k \in 1..Len(high_cpu_processes) :
          high_cpu_processes[k].cpu > args.process_cpu_threshold

\* C5: each of the five threshold decisions raises its alert exactly when
\* the value read is strictly greater than the threshold; a value equal to
\* the threshold raises none.
C5_StrictGreaterThan ==
    [][/\ (pc = "cpu_cmp" /\ pc' = "mem") =>
             (cpu_alert' <=> val > args.cpu_threshold)
       /\ (pc = "mem_cmp" /\ pc' = "disk") =>
             (mem_alert' <=> val > args.memory_threshold)
       /\ DecisionsStrict'
      ]_vars

C5_Witness ==
    /\ pc = "phase2" /\ j > 1 /\ ph2[j - 1] = "ok"
    /\ cpu_pct = args.process_cpu_threshold /\ high_cpu_processes = <<>>
    /\ process_count = args.process_count_threshold /\ p_alerts = <<>>
    /\ HasLine(log, "INFO", "CPU usage") /\ ~cpu_alert
    /\ HasLine(log, "WARNING", "High memory usage") /\ mem_alert
    /\ HasLine(log, "WARNING", "High disk usage")
    /\ HasLine(log, "INFO", "Disk usage")

\* C6: the step in which a KeyboardInterrupt is raised ends main: it binds no
\* result of a check, writes the shutdown line and nothing else (no summary),
\* main has returned through its KeyboardInterrupt clause, and once main has
\* ended no step of the loop follows.
C6_CancelStopsAtOnce ==
    [][/\ (sigint' /\ ~sigint) =>
            /\ pc' = "stopped"
            /\ exc' = "KeyboardInterrupt"
            /\ log' = Append(log, ShutdownLine)
            /\ mainLocals' = mainLocals
       /\ pc = "stopped" => (pc' = "stopped" /\ log' = log /\ mainLocals' = mainLocals)
      ]_vars

C6_Witness ==
    /\ pc = "stopped" /\ sigint /\ exc = "KeyboardInterrupt"
    /\ HasLine(log, "INFO", "Total processes")
    /\ log[Len(log)] = ShutdownLine
    /\ ~SummaryAlert /\ ~SummaryOK

\* C7: while check_disk_usage runs, every path before the current one has
\* been read, whether or not an earlier read failed, and the alert list is
\* exactly the successfully read paths whose percent is strictly above the
\* threshold, in path order; at the return all paths have been read.
C7_DiskPathsIsolated ==
    pc = "disk" =>
        /\ i \in 1..(Len(disk_paths) + 1)
        /\ Len(du) = i - 1
        /\ alerts = OwedDiskAlerts(du, 1)

C7_Witness ==
    /\ pc = "disk" /\ i > Len(disk_paths)
    /\ du[1] = None /\ du[2] > args.disk_threshold
    /\ alerts = <<<<disk_paths[2], du[2]>>>>

FailedCpu == HasLine(log, "ERROR", "Failed to read CPU percent")

FailedMem == HasLine(log, "ERROR", "Failed to read  memory usage")

FailedDisk(path) ==
    \E k \in 1..Len(log) : log[k].msg = "Error checking disk" /\ log[k].arg = path

FailedCount == HasLine(log, "ERROR", "Failed to get process count")

AfterDisk == {"count", "iter", "phase1", "phase2", "aggregate", "summary", "main_sleep"}

\* C8: a metric whose read failed in this cycle raises no alert; a true
\* cycle_alerts comes from a metric that was read (or from the high-usage
\* list); and a cycle with failed reads still runs every check: at the main
\* sleep each check has left its line.
C8_FailedReadIsAbsent ==
    /\ FailedCpu => (~cpu_alert /\ ~HasLine(log, "WARNING", "High CPU usage"))
    /\ FailedMem =>
           (~mem_alert /\ ~HasLine(log, "WARNING", "High memory usage"))
    /\ \A k \in 1..NumPaths :
          FailedDisk(disk_paths[k]) =>
             /\ \A a \in 1..Len(alerts) : alerts[a][1] # disk_paths[k]
             /\ pc \in AfterDisk =>
                   \A a \in 1..Len(disk_alerts) : disk_alerts[a][1] # disk_paths[k]
    /\ FailedCount =>
          /\ p_alerts = <<>>
          /\ pc \in {"aggregate", "summary", "main_sleep"} => proc_alerts = <<>>
    /\ (pc \in {"summary", "main_sleep"} /\ cycle_alerts) =>
          \/ cpu_alert /\ ~FailedCpu
          \/ mem_alert /\ ~FailedMem
          \/ \E a \in 1..Len(disk_alerts) : ~FailedDisk(disk_alerts[a][1])
          \/ proc_alerts # <<>> /\ ~FailedCount
          \/ high_cpu_procs # <<>>
    /\ pc = "main_sleep" =>
          /\ FailedCpu \/ HasLine(log, "INFO", "CPU usage")
                 \/ HasLine(log, "WARNING", "High CPU usage")
          /\ FailedMem \/ HasLine(log, "INFO", "Memory usage")
                 \/ HasLine(log, "WARNING", "High memory usage")
          /\ \A k \in 1..NumPaths :
                \E n \in 1..Len(log) :
                   /\ log[n].arg = disk_paths[k]
                   /\ log[n].msg \in {"Error checking disk", "Disk usage", "High disk usage"}
          /\ FailedCount \/ HasLine(log, "INFO", "Total processes")
                 \/ HasLine(log, "WARNING", "High number of processes")
          /\ HasLine(log, "INFO", "No high CPU processed detected") \/ HighListHeader

C8_Witness ==
    /\ pc = "main_sleep"
    /\ FailedCpu /\ FailedMem /\ FailedCount
    /\ \A k \in 1..NumPaths : FailedDisk(disk_paths[k])
    /\ ~cycle_alerts /\ SummaryOK

\* C9: a generic failure of an introspection call of the process scan never
\* ends main: main is never ended by an OSError.
C9_GenericFailureContained == pc = "stopped" => exc # "OSError"

\* C10: once an entry of the registry has been dropped in phase 2 for a soft
\* error, no later step of the scan ends the cycle with an exception: the
\* cycle completes unless it is cancelled.
C10_SoftDropCycleCompletes ==
    [][(pc = "phase2" /\ \E k \in 1..Len(ph2) : ph2[k] = "soft")
       => (pc' = "stopped" => sigint')]_vars

\* C11: during the second pass every entry of the high-usage list carries the
\* pid of a registry entry of this scan whose second-pass cpu and memory
\* queries both returned a value, no pid is entered twice, and the list is
\* never longer than the registry.
C11_EmittedFromRegistry ==
    pc = "phase2" =>
        /\ \A k \in 1..Len(high_cpu_processes) :
              /\ \E n \in 1..Len(ph2) :
                    /\ procs[n].pid = high_cpu_processes[k].pid
                    /\ ph2[n] = "ok"
              /\ high_cpu_processes[k].cpu \in Readings(args.process_cpu_threshold)
              /\ high_cpu_processes[k].mem \in MemReadings
        /\ \A k, m \in 1..Len(high_cpu_processes) :
              high_cpu_processes[k].pid = high_cpu_processes[m].pid => k = m
        /\ Len(ph2) <= Len(procs)
        /\ Len(high_cpu_processes) <= Len(procs)

C11_Witness ==
    /\ pc = "phase2" /\ j > Len(procs) /\ Len(procs) = 2
    /\ ph2[1] # "ok"
    /\ Len(high_cpu_processes) = 1
    /\ high_cpu_processes[1].pid = procs[2].pid

\* the lines the checks write for a failed read
ReadFailureLines ==
    {"Failed to read CPU percent", "Failed to read  memory usage",
     "Error checking disk"}

\* C12: every line that reports a failed processor, memory or disk read is
\* written at error level, and the step that records a failed disk read
\* writes such a line and adds no alert.
C12_ReadFailureLoggedAtError ==
    /\ \A k \in 1..Len(log) :
          log[k].msg \in ReadFailureLines => log[k].level = "ERROR"
    /\ (pc = "disk" /\ du # <<>> /\ du[Len(du)] = None) =>
          /\ log[Len(log)].msg = "Error checking disk"
          /\ \A a \in 1..Len(alerts) : alerts[a][1] # disk_paths[Len(du)]

\* C13: every cpu percent the second pass compares with the per-process
\* threshold was returned by a cpu_percent call on a Process object whose
\* counter already held a baseline taken in this scan.
C13_ComparedAfterBaseline ==
    pc = "phase2" =>
        \A k \in 1..Len(ph2) :
            ph2[k] = "ok" => Phase2Object(procs[k].pid) \in Baselined

\* C14: a scan sleeps for sample_interval exactly once, whatever the size of
\* the registry: the registry grows (a baseline call succeeded) only before
\* the sleep, the sleep begins only when the enumeration is exhausted and
\* leaves the registry as it is, every second-pass query comes after the
\* sleep, and the scan returns having slept once.
C14_OneSharedSleep ==
    [][/\ (procs' # procs /\ procs' # <<>>) => (sleeps = 0 /\ sleeps' = 0)
       /\ (sleeps' # sleeps /\ sleeps' # 0) =>
             (sleeps' = 1 /\ iter = <<>> /\ procs' = procs /\ ph2' = <<>>)
       /\ (ph2' # ph2 /\ ph2' # <<>>) => (sleeps = 1 /\ sleeps' = 1)
       /\ (pc = "phase2" /\ pc' = "aggregate") => sleeps = 1
      ]_vars

C14_Witness ==
    /\ pc = "phase2" /\ j > Len(procs) /\ Len(procs) = 2
    /\ ph2 = <<"ok", "ok">>
    /\ sleeps = 1

\* C15: a first-pass iteration whose baseline call fails with NoSuchProcess,
\* ZombieProcess or AccessDenied adds nothing to the registry, writes no
\* line, raises nothing to main and leaves the enumeration at the next
\* process; the registry grows only by the process whose baseline call has
\* just succeeded, which is then its last entry, and no pid is in it twice.
C15_SoftBaselineFailureDropped ==
    [][pc = "phase1" =>
         /\ exc' \notin {"NoSuchProcess", "ZombieProcess", "AccessDenied"}
         /\ baseline' \in {"NoSuchProcess", "ZombieProcess", "AccessDenied"} =>
               /\ pc' = "phase1" /\ exc' = ""
               /\ procs' = procs /\ log' = log
               /\ iter' = Tail(iter)
         /\ (pc' = "phase1" /\ baseline' = "ok") =>
               /\ procs' = Append(procs, [pid |-> Head(iter), name |-> NameOf(Head(iter))])
               /\ iter' = Tail(iter)
         /\ procs' # procs => (procs' = <<>> \/ (pc' = "phase1" /\ baseline' = "ok"))
         /\ \A k, m \in 1..Len(procs') :
               procs'[k].pid = procs'[m].pid => k = m
      ]_vars

C15_Witness ==
    /\ pc = "phase1" /\ iter = <<>> /\ baseline = "AccessDenied"
    /\ Len(procs) = 1 /\ procs[1].pid = 1
    /\ ~HasLine(log, "ERROR", "Unhandled exception in monitor")

\* C16, as claimed: the process count that is compared with the threshold is
\* the number of pids the enumeration of the first pass starts with.
C16_CountIsEnumeration ==
    [][(pc = "iter" /\ pc' = "phase1" /\ process_count # None)
       => process_count = Len(iter')]_vars

\* C16, amended: the process count is read and compared once, by the call
\* that precedes the enumeration of the first pass: the alert is raised
\* exactly when that count is strictly above the threshold, and from then on
\* no step of the two passes changes the count or the alert, which the scan
\* returns to main as it was decided.
C16_CountDecidedBeforePasses ==
    [][/\ (pc = "count" /\ pc' = "iter") =>
             /\ process_count' \in (0..NumPids) \cup {None}
             /\ p_alerts' = IF /\ process_count' # None
                               /\ process_count' > args.process_count_threshold
                            THEN <<<<"Process Count", process_count'>>>>
                            ELSE <<>>
       /\ (pc \in {"iter", "phase1", "phase2"} /\ pc' \in {"phase1", "phase2"}) =>
             (process_count' = process_count /\ p_alerts' = p_alerts)
       /\ (pc = "phase2" /\ pc' = "aggregate") => proc_alerts' = p_alerts
      ]_vars

C16_Witness ==
    /\ pc = "phase2" /\ j > Len(procs)
    /\ process_count = 0 /\ p_alerts = <<>>
    /\ Len(procs) = 2 /\ ph2 = <<"ok", "ok">>

\* the positions main can go to from each position without an exception
Succ ==
    [cycle |-> {"cpu"}, cpu |-> {"cpu_cmp", "mem"}, cpu_cmp |-> {"mem"},
     mem |-> {"mem_cmp", "disk"}, mem_cmp |-> {"disk"},
     disk |-> {"disk", "count"}, count |-> {"iter"}, iter |-> {"phase1"},
     phase1 |-> {"phase1", "phase2"}, phase2 |-> {"phase2", "aggregate"},
     aggregate |-> {"summary"}, summary |-> {"main_sleep"},
     main_sleep |-> {"cycle"}, stopped |-> {}]

\* the check a line of the log belongs to, in the order of the loop body
MsgRank(m) ==
    CASE m = "-----New health check cycle-----" -> 0
      [] m \in {"CPU usage", "High CPU usage", "Failed to read CPU percent"} -> 1
      [] m \in {"Memory usage", "High memory usage",
                "Failed to read  memory usage"} -> 2
      [] m \in {"Disk usage", "High disk usage", "Error checking disk"} -> 3
      [] m \in {"Total processes", "High number of processes",
                "Failed to get process count"} -> 4
      [] m \in {"No high CPU processed detected",
                "High CPU processess detected:", " -PID"} -> 5
      [] m \in {"One or more alerts raised this cycle.",
                "All checks OK this cycle."} -> 6
      [] m = "---- Cycle completed ----" -> 7
      [] OTHER -> 8

\* from line n on, the lines of l follow each other check by check in the
\* order of the loop body: at most one line for each check before the scan,
\* the disk lines in path order
OrderedFrom(l, n) ==
    \A a \in n..(Len(l) - 1) :
        LET ra == MsgRank(l[a].msg)
            rb == MsgRank(l[a + 1].msg)
        IN  /\ ra <= rb
            /\ rb \in {1, 2, 4, 6} => ra < rb
            /\ (ra = 3 /\ rb = 3) =>
                  \E k, m \in 1..NumPaths :
                     /\ k < m
                     /\ l[a].arg = disk_paths[k]
                     /\ l[a + 1].arg = disk_paths[m]

\* C17: main moves through a cycle in one order: processor, memory, the disk
\* paths one after the other in configured order, process count and scan,
\* the aggregation, the summary, the main sleep, and only then the next
\* cycle; the summary lines are written by the step between the returned
\* scan and the main sleep, and every line a step writes follows the lines
\* of the cycle in that order.
C17_CycleOrder ==
    [][/\ pc' \in Succ[pc] \cup {"stopped"}
       /\ (pc = "disk" /\ pc' = "disk") =>
             /\ i' = i + 1
             /\ log' # log /\ log'[Len(log')].arg = disk_paths[i]
       /\ (pc = "disk" /\ pc' = "count") => i = Len(disk_paths) + 1
       /\ (pc = "phase2" /\ pc' = "aggregate") => j = Len(procs) + 1
       /\ pc' = "summary" => (i' = 0 /\ j' = 0 /\ sleeps' = 0)
       /\ (pc' = "cpu" /\ pc # "cpu") => (pc = "cycle" /\ Len(log') = 1)
       /\ log' # log =>
             /\ OrderedFrom(log', IF log = <<>> THEN 1 ELSE Len(log))
             /\ pc # "summary" =>
                   \A k \in (Len(log) + 1)..Len(log') : MsgRank(log'[k].msg) # 6
             /\ pc = "summary" =>
                   (pc' = "main_sleep" => MsgRank(log'[Len(log) + 1].msg) = 6)
      ]_vars

C17_Witness ==
    /\ pc = "main_sleep"
    /\ [k \in 1..Len(log) |-> log[k].msg] =
         <<"-----New health check cycle-----", "High CPU usage", "Memory usage",
           "Error checking disk", "High disk usage", "Total processes",
           "No high CPU processed detected",
           "One or more alerts raised this cycle.", "---- Cycle completed ----">>
    /\ log[4].arg = disk_paths[1] /\ log[5].arg = disk_paths[2]

\* a line of this cycle that reports a reading above its threshold
AlertingLine ==
    \E k \in 1..Len(log) :
        /\ log[k].level = "WARNING"
        /\ log[k].msg \in {"High CPU usage", "High memory usage",
                            "High disk usage", "High number of processes",
                            "High CPU processess detected:"}

\* C18: whatever the cycle before reported, cycle_alerts is false from the
\* top of the loop body until the results of this cycle are aggregated, and
\* the summary of a cycle reports alerts exactly when a reading of this
\* cycle was above its threshold: a cycle without such a reading reports
\* all OK.
C18_NoAlertCarriedOver ==
    /\ pc \in {"cpu", "cpu_cmp", "mem", "mem_cmp", "disk", "count", "iter",
                "phase1", "phase2", "aggregate"} => ~cycle_alerts
    /\ pc = "main_sleep" =>
          /\ SummaryAlert <=> AlertingLine
          /\ SummaryOK <=> ~AlertingLine
          /\ cycle_alerts <=> AlertingLine

C18_Witness ==
    /\ pc = "main_sleep" /\ prev_alerts
    /\ ~AlertingLine /\ SummaryOK /\ ~cycle_alerts

\* C19: while monitor runs, it has one result for each URL requested so far,
\* in the order of the argument: the URL itself, with UP and the code when
\* the response carried a code c with 200 <= c < 300, DOWN and the code when
\* it carried any other code, DOWN and None when the request raised a
\* request exception; a URL that failed is followed by the check of the next
\* one, and when monitor returns every URL of the argument has its result.
C19_OneResultPerUrl ==
    /\ mpc \in {"loop", "returned"} =>
          /\ Len(results) = Len(answers)
          /\ Len(answers) <= Len(urls)
          /\ \A k \in 1..Len(results) :
                /\ results[k][1] = urls[k]
                /\ (results[k][2] = "UP") <=>
                      (/\ answers[k].exc = ""
                       /\ 200 <= answers[k].v /\ answers[k].v < 300)
                /\ results[k][2] \in {"UP", "DOWN"}
                /\ answers[k].exc = "" => results[k][3] = answers[k].v
                /\ answers[k].exc # "" =>
                      (results[k][2] = "DOWN" /\ results[k][3] = None)
    /\ mpc = "returned" => Len(results) = Len(urls)
    /\ mpc = "raised" => answers[Len(answers)].exc = "KeyboardInterrupt"

C19_Witness ==
    /\ mpc = "returned" /\ Len(urls) = 2 /\ urls[1] = urls[2]
    /\ answers[1].exc = "Timeout" /\ answers[2].exc = "" /\ answers[2].v = 200
    /\ results = <<<<urls[1], "DOWN", None>>, <<urls[2], "UP", 200>>>>
====
